---- MODULE Spec2Model ----
(***************************************************************************)
(* Upgrade governance of goQuant: the backend service (ProposalManager,    *)
(* MultisigCoordinator, TimelockManager; src/backend/src) and the on-chain *)
(* upgrade_manager program (src/programs/upgrade-manager/src/lib.rs).      *)
(*                                                                         *)
(* The backend's async functions are modelled per task, one step per       *)
(* critical-section boundary: a call arrives (.._begin), takes the tokio   *)
(* Mutex when it is free and runs under it, returns, and the handler       *)
(* responds.  The on-chain instructions are transactions, which the        *)
(* runtime serialises: one step each.                                      *)
(*                                                                         *)
(* The two programs keep disjoint state and never call each other (the     *)
(* Squads submission of the backend is a placeholder), so a behaviour      *)
(* exercises one of them; `target` says which.                             *)
(***************************************************************************)
EXTENDS Integers, Sequences, FiniteSets, TLC

VARIABLES
    target,         \* "backend" | "onchain": the program this behaviour runs
    now,            \* the clock: SystemTime::now() / Clock::get(), in seconds
    \* ---- backend ----
    proposals,      \* ProposalManager.proposals: Vec<Proposal>
    ms_proposals,   \* MultisigCoordinator.proposals: Vec<MultisigProposal>
    timelocks,      \* TimelockManager.timelocks: HashMap<String, i64>
    pm_lock,        \* holder of ProposalManager.proposals' Mutex (NoTask: free)
    ms_lock,        \* holder of MultisigCoordinator.proposals' Mutex
    next_uuid,      \* the next uuid::Uuid::new_v4() (fresh, never repeated)
    pc,             \* per task: where its current call stands
    call,           \* per task: the call in flight: arguments, locals, result
    approve_calls,  \* history: <<id, caller>> of the members' approve calls that returned,
                    \* for the ids of the ProposalManager's records
    submitted,      \* history: ids handed to the execution backend (Squads)
    \* ---- on-chain ----
    config,         \* MultisigConfig + ProgramUpgradeState accounts
    accounts,       \* UpgradeProposal accounts, by buffer (the PDA's seed)
    tx,             \* the last transaction processed, with its result
    \* ---- backend services ----
    migrations,     \* MigrationManager.migrations: Vec<MigrationProgress>
    batch,          \* the spawned migrate_accounts_batch tasks, in spawn order
    rollback,       \* the rollback_program call: where it stands, what it ran
    rollback_events, \* Database: the rollback_events table
    metrics,        \* MonitoringService.metrics
    alerts,         \* MonitoringService.alerts: Vec<Alert>
    query,          \* the last read-only call: its name, arguments and result
    \* ---- the backend's tokio Mutexes, lock by lock ----
    mutex,          \* per Mutex: the task holding its guard, the tasks queued for it
    running         \* per task: the operation it is in and the lock call it stands at

vars == <<target, now, proposals, ms_proposals, timelocks, pm_lock, ms_lock,
          next_uuid, pc, call, approve_calls, submitted,
          config, accounts, tx,
          migrations, batch, rollback, rollback_events, metrics, alerts, query,
          mutex, running>>

lock_vars == <<mutex, running>>

backend_vars == <<proposals, ms_proposals, timelocks, pm_lock, ms_lock,
                  next_uuid, pc, call, approve_calls, submitted>>

onchain_vars == <<config, accounts, tx>>

service_vars == <<migrations, batch, rollback, rollback_events, metrics, alerts, query>>

----------------------------------------------------------------------------
(* Bounds of the model                                                     *)

NumTasks == 2
MaxProposals == 1
MaxTicks == 2
NumCallers == 3

\* proposals of a run that only proposes, executes and cancels
MaxListed == 2

Tasks == 1..NumTasks
NoTask == 0

\* The clock advances in steps of 24 hours.
ClockStep == 24 * 60 * 60

----------------------------------------------------------------------------
(* Program constants                                                       *)

TIMELOCK_DURATION == 48 * 60 * 60
MIN_TIMELOCK == 48 * 60 * 60
APPROVAL_THRESHOLD == 3
MULTISIG_THRESHOLD == 3

members == <<"member1", "member2", "member3", "member4", "member5">>

\* The members that call: the first NumCallers of them.
Callers == {members[i] : i \in 1..(IF NumCallers < Len(members) THEN NumCallers ELSE Len(members))}

\* Who signs a transaction or calls the backend's approve route: the members
\* that call and somebody who is no member
Signers == Callers \cup {"outsider"}

----------------------------------------------------------------------------
(* Results: Result<_, UpgradeError>.  a and b carry an error's payload     *)
(* (remaining_seconds; current, required) or Ok's value (the new id).      *)

Res(kind, msg, a, b) == [kind |-> kind, msg |-> msg, a |-> a, b |-> b]
Ok == Res("Ok", "", 0, 0)
OkId(id) == Res("Ok", "", id, 0)
ProposalNotFound == Res("ProposalNotFound", "", 0, 0)
AlreadyExecuted == Res("AlreadyExecuted", "", 0, 0)
AlreadyCancelled == Res("AlreadyCancelled", "", 0, 0)
TimelockActive(remaining) == Res("TimelockActive", "", remaining, 0)
InsufficientApprovals(current, required) == Res("InsufficientApprovals", "", current, required)
InternalError(msg) == Res("InternalError", msg, 0, 0)
NoRes == Res("None", "", 0, 0)

\* Option<i64>: <<>> is None, <<v>> is Some(v)
None == <<>>
Some(v) == <<v>>

\* Vec::iter().find(|p| p.id == id): the index of the first match, 0 if none
Find(vec, id) ==
    IF \E i \in 1..Len(vec) : vec[i].id = id
    THEN CHOOSE i \in 1..Len(vec) : vec[i].id = id /\ \A j \in 1..(i - 1) : vec[j].id # id
    ELSE 0

\* Vec::contains
Contains(vec, x) == \E i \in 1..Len(vec) : vec[i] = x

----------------------------------------------------------------------------
(* Backend: calls                                                          *)

\* op, id, caller: the call.  t_now: the clock as the call read it.  res: its
\* result, once returned.  The rest is history: the call it raced with (rival),
\* and what it found when it looked: the record's status and approval count
\* (pre_status, pre_count), the ProposalManager's status of that id (pm_status),
\* whether the caller was among its approvals (pre_has), how many distinct
\* members had approved the id (pre_callers).
NoCall == [op |-> "none", id |-> 0, caller |-> "", t_now |-> 0, res |-> NoRes,
           rival |-> NoTask, pre_status |-> "", pre_count |-> 0, pre_has |-> FALSE,
           pm_status |-> "", pre_callers |-> 0]

\* The runs of the backend service: every operation on few proposals, the
\* ProposalManager's own operations on more, or the TimelockManager alone
BackendTargets == {"backend", "listing", "timelock"}
ProposalBound == IF target = "listing" THEN MaxListed ELSE MaxProposals

\* The ids a caller may pass: every uuid issued so far
IssuedIds == 1..(next_uuid - 1)

\* The ids of the ProposalManager's records
ProposalIds == {proposals[i].id : i \in 1..Len(proposals)}

StatusOf(id) == IF Find(proposals, id) = 0 THEN "" ELSE proposals[Find(proposals, id)].status

\* The distinct members whose approve call on id has returned
ApproversOf(id) == {m \in Callers : <<id, m>> \in approve_calls}

\* propose_upgrade calls begun so far
ProposesBegun == Len(proposals) + Cardinality({t \in Tasks : pc[t] \in {"propose_ms", "propose_push"}})

\* The last transaction: the instruction, the proposal account's key, the signer,
\* the clock it read and its result; and what it found in the account: status,
\* approval count, whether the signer was among the approvals, timelock_until.
NoTx == [op |-> "none", key |-> 0, signer |-> "", t_now |-> 0, res |-> NoRes,
         pre_status |-> "", pre_count |-> 0, pre_has |-> FALSE, pre_until |-> 0]

\* No read-only call has been made
NoQuery == [op |-> "none", args |-> <<>>, res |-> NoRes]

\* A rollback_program call: the stage it stands before, the stages it ran, its result
NoRollback == [pc |-> "idle", ran |-> <<>>, res |-> NoRes]

\* The Mutexes of the backend: ProposalManager.proposals,
\* MultisigCoordinator.proposals, TimelockManager.timelocks,
\* MonitoringService.metrics, .alerts and .health_checks,
\* MigrationManager.migrations
Mutexes == {"proposals", "ms_proposals", "timelocks", "metrics", "alerts",
            "health_checks", "migrations"}

\* The tasks that take them
NumLockTasks == 2
LockTasks == 1..NumLockTasks

\* A task in no operation
NoOperation == [op |-> "idle", script |-> <<>>, at |-> 0, asked |-> FALSE]

\* ProposalManager::new, MultisigCoordinator::new, TimelockManager::new; no
\* on-chain account exists
InitGovernance ==
    /\ mutex = [m \in Mutexes |-> [holder |-> NoTask, queue |-> <<>>]]
    /\ running = [t \in LockTasks |-> NoOperation]
    /\ now = 0
    /\ proposals = <<>>
    /\ ms_proposals = <<>>
    /\ timelocks = [i \in {} |-> 0]
    /\ pm_lock = NoTask
    /\ ms_lock = NoTask
    /\ next_uuid = 1
    /\ pc = [t \in Tasks |-> "idle"]
    /\ call = [t \in Tasks |-> NoCall]
    /\ approve_calls = {}
    /\ submitted = {}
    /\ config = [initialized |-> FALSE, members |-> <<>>, threshold |-> 0, timelock_duration |-> 0]
    /\ accounts = [b \in {} |-> 0]
    /\ tx = NoTx

\* RollbackHandler::new, MonitoringService::new, an empty rollback_events table
InitRollback ==
    /\ rollback = NoRollback
    /\ rollback_events = <<>>
    /\ metrics = [rollbacks_initiated |-> 0]
    /\ alerts = <<>>
    /\ query = NoQuery

Init ==
    /\ target \in {"backend", "onchain", "migration", "rollback"}
    /\ InitGovernance
    /\ InitRollback
    /\ migrations = <<>>
    /\ batch = <<>>

\* The clock moves on.
Tick ==
    /\ now < MaxTicks * ClockStep
    /\ now' = now + ClockStep
    /\ UNCHANGED <<target, lock_vars, backend_vars, onchain_vars, service_vars>>

----------------------------------------------------------------------------
(* Backend: shared steps                                                   *)

\* A lock that excludes nobody
LockFreeAlways(lock) == TRUE

\* tokio::sync::Mutex::lock().await completes only while nobody holds it
LockFree(lock) == lock = NoTask

\* The call of task t returns res; c is its call record at that moment
Return(t, c, res) ==
    /\ pc' = [pc EXCEPT ![t] = "returned"]
    /\ call' = [call EXCEPT ![t] = [c EXCEPT !.res = res]]

\* A call arrives at task t and awaits its lock.  A call of kind rival_op on
\* the same id that has arrived and not returned is racing with it.
Arrive(t, op, id, caller, rival_op, next_pc) ==
    LET rivals == {u \in Tasks \ {t} :
                     pc[u] \notin {"idle", "returned"} /\ call[u].op = rival_op /\ call[u].id = id}
        r == IF rivals = {} THEN NoTask ELSE CHOOSE u \in rivals : TRUE
    IN  /\ pc[t] = "idle"
        /\ pc' = [pc EXCEPT ![t] = next_pc]
        /\ call' = [u \in Tasks |->
                      IF u = t
                      THEN [NoCall EXCEPT !.op = op, !.id = id, !.caller = caller, !.rival = r]
                      ELSE IF u = r /\ call[u].rival = NoTask
                           THEN [call[u] EXCEPT !.rival = t]
                           ELSE call[u]]

\* The handler turns the result into the HTTP response (main.rs); the task is free
respond(t) ==
    /\ pc[t] = "returned"
    /\ pc' = [pc EXCEPT ![t] = "idle"]
    /\ call' = [call EXCEPT ![t] = NoCall]
    /\ UNCHANGED <<target, lock_vars, now, proposals, ms_proposals, timelocks, pm_lock, ms_lock,
                   next_uuid, approve_calls, submitted, onchain_vars, service_vars>>

----------------------------------------------------------------------------
(* ProposalManager::propose_upgrade and MultisigCoordinator::propose_transaction *)

\* A record that takes the multisig's status for its own
NewProposalPending(proposal_id, t_now) ==
    [id |-> proposal_id,
     proposed_at |-> t_now,
     timelock_until |-> t_now + TIMELOCK_DURATION,
     approvals |-> <<>>,
     approval_threshold |-> APPROVAL_THRESHOLD,
     status |-> "Pending",
     executed_at |-> None]

\* "Create proposal record"
NewProposal(proposal_id, t_now) ==
    [id |-> proposal_id,
     proposed_at |-> t_now,
     timelock_until |-> t_now + TIMELOCK_DURATION,
     approvals |-> <<>>,
     approval_threshold |-> APPROVAL_THRESHOLD,
     status |-> "Proposed",
     executed_at |-> None]

propose_upgrade_begin(t) ==
    /\ target \in BackendTargets
    /\ pc[t] = "idle"
    /\ ProposesBegun < ProposalBound
    /\ pc' = [pc EXCEPT ![t] = "propose_ms"]
    /\ call' = [call EXCEPT ![t] = [NoCall EXCEPT !.op = "propose", !.id = next_uuid,
                                                  !.t_now = now]]
    /\ next_uuid' = next_uuid + 1
    /\ UNCHANGED <<target, lock_vars, now, proposals, ms_proposals, timelocks, pm_lock, ms_lock,
                   approve_calls, submitted, onchain_vars, service_vars>>

propose_transaction(t) ==
    /\ pc[t] = "propose_ms"
    /\ LockFree(ms_lock)
    /\ ms_proposals' = Append(ms_proposals,
            [id |-> next_uuid, timelock |-> TIMELOCK_DURATION, approvals |-> <<>>,
             threshold |-> MULTISIG_THRESHOLD, status |-> "Pending",
             for_proposal |-> call[t].id])   \* the propose_upgrade call it was made for
    /\ next_uuid' = next_uuid + 1
    /\ pc' = [pc EXCEPT ![t] = "propose_push"]
    /\ UNCHANGED <<target, lock_vars, now, proposals, timelocks, pm_lock, ms_lock, call,
                   approve_calls, submitted, onchain_vars, service_vars>>

propose_upgrade_push(t) ==
    /\ pc[t] = "propose_push"
    /\ LockFree(pm_lock)
    /\ proposals' = Append(proposals, NewProposal(call[t].id, call[t].t_now))
    /\ Return(t, call[t], OkId(call[t].id))
    /\ UNCHANGED <<target, lock_vars, now, ms_proposals, timelocks, pm_lock, ms_lock, next_uuid,
                   approve_calls, submitted, onchain_vars, service_vars>>

----------------------------------------------------------------------------
(* TimelockManager                                                         *)

set_timelock(id, duration_seconds) ==
    /\ target \in BackendTargets
    /\ timelocks' = [i \in DOMAIN timelocks \cup {id} |->
                        IF i = id THEN now + duration_seconds ELSE timelocks[i]]
    /\ UNCHANGED <<target, lock_vars, now, proposals, ms_proposals, pm_lock, ms_lock, next_uuid,
                   pc, call, approve_calls, submitted, onchain_vars, service_vars>>

get_timelock_end(id) ==
    IF id \in DOMAIN timelocks THEN OkId(timelocks[id]) ELSE ProposalNotFound

\* ProposalManager::wait_for_timelock
wait_for_timelock(id) ==
    LET timelock_end == get_timelock_end(id)
    IN  IF timelock_end.kind # "Ok" THEN timelock_end
        ELSE IF now < timelock_end.a THEN TimelockActive(timelock_end.a - now)
        ELSE Ok

----------------------------------------------------------------------------
(* MultisigCoordinator::approve_proposal (the approve route's handler)     *)

\* "Get from context": the approver is fixed, whoever calls
approver == "member1"

\* history: the approve call c, a member's, has returned
Approved(c) ==
    IF c.id \in ProposalIds /\ c.caller \in Callers
    THEN approve_calls \cup {<<c.id, c.caller>>} ELSE approve_calls

approve_proposal_begin(t, id, caller) ==
    /\ target \in BackendTargets
    /\ Arrive(t, "approve", id, caller, "approve", "approve_check")
    /\ UNCHANGED <<target, lock_vars, now, proposals, ms_proposals, timelocks, pm_lock, ms_lock,
                   next_uuid, approve_calls, submitted, onchain_vars, service_vars>>

\* lock, find the proposal, "if proposal.approvals.contains(&approver)"
approve_proposal_check(t) ==
    /\ pc[t] = "approve_check"
    /\ LockFree(ms_lock)
    /\ LET i == Find(ms_proposals, call[t].id)
           c == [call[t] EXCEPT !.pre_count = IF i = 0 THEN 0 ELSE Len(ms_proposals[i].approvals),
                                !.pre_status = IF i = 0 THEN "" ELSE ms_proposals[i].status,
                                !.pre_has = i # 0 /\ Contains(ms_proposals[i].approvals, call[t].caller),
                                !.pm_status = StatusOf(call[t].id)]
       IN  IF i = 0
           THEN /\ Return(t, c, ProposalNotFound)
                /\ approve_calls' = Approved(c)
                /\ UNCHANGED ms_lock
           ELSE IF Contains(ms_proposals[i].approvals, approver)
           THEN /\ Return(t, c, InternalError("Already approved"))
                /\ approve_calls' = Approved(c)
                /\ UNCHANGED ms_lock
           ELSE /\ pc' = [pc EXCEPT ![t] = "approve_push"]
                /\ call' = [call EXCEPT ![t] = c]
                /\ ms_lock' = t
                /\ UNCHANGED approve_calls
    /\ UNCHANGED <<target, lock_vars, now, proposals, ms_proposals, timelocks, pm_lock,
                   next_uuid, submitted, onchain_vars, service_vars>>

\* "proposal.approvals.push(approver)", "Check if threshold met", unlock
approve_proposal_push(t) ==
    /\ pc[t] = "approve_push"
    /\ LET i == Find(ms_proposals, call[t].id)
           approvals == Append(ms_proposals[i].approvals, approver)
       IN  ms_proposals' = [ms_proposals EXCEPT ![i] =
                [ms_proposals[i] EXCEPT
                    !.approvals = approvals,
                    !.status = IF Len(approvals) >= ms_proposals[i].threshold
                               THEN "Approved" ELSE ms_proposals[i].status]]
    /\ Return(t, call[t], Ok)
    /\ approve_calls' = Approved(call[t])
    /\ ms_lock' = IF ms_lock = t THEN NoTask ELSE ms_lock
    /\ UNCHANGED <<target, lock_vars, now, proposals, timelocks, pm_lock, next_uuid, submitted,
                   onchain_vars, service_vars>>

----------------------------------------------------------------------------
(* ProposalManager::execute_upgrade                                        *)

execute_upgrade_begin(t, id) ==
    /\ target \in BackendTargets
    /\ Arrive(t, "execute", id, "", "cancel", "execute_check")
    /\ UNCHANGED <<target, lock_vars, now, proposals, ms_proposals, timelocks, pm_lock, ms_lock,
                   next_uuid, approve_calls, submitted, onchain_vars, service_vars>>

\* lock, find the proposal, "Check status"
execute_upgrade_check(t) ==
    /\ pc[t] = "execute_check"
    /\ LockFree(pm_lock)
    /\ LET i == Find(proposals, call[t].id)
           c == [call[t] EXCEPT !.pre_count = IF i = 0 THEN 0 ELSE Len(proposals[i].approvals),
                                !.pre_status = IF i = 0 THEN "" ELSE proposals[i].status,
                                !.pm_status = StatusOf(call[t].id),
                                !.pre_callers = Cardinality(ApproversOf(call[t].id))]
       IN  IF i = 0
           THEN Return(t, c, ProposalNotFound) /\ UNCHANGED pm_lock
           ELSE IF proposals[i].status = "Executed"
           THEN Return(t, c, AlreadyExecuted) /\ UNCHANGED pm_lock
           ELSE IF proposals[i].status = "Cancelled"
           THEN Return(t, c, AlreadyCancelled) /\ UNCHANGED pm_lock
           ELSE /\ pc' = [pc EXCEPT ![t] = "execute_run"]
                /\ call' = [call EXCEPT ![t] = c]
                /\ pm_lock' = t
    /\ UNCHANGED <<target, lock_vars, now, proposals, ms_proposals, timelocks, ms_lock,
                   next_uuid, approve_calls, submitted, onchain_vars, service_vars>>

\* MultisigCoordinator::execute_transaction, as execute_upgrade calls it
execute_transaction(id) ==
    LET j == Find(ms_proposals, id)
    IN  IF j = 0 THEN ProposalNotFound
        ELSE IF ms_proposals[j].status # "Approved" THEN InternalError("Proposal not approved")
        ELSE Ok

\* "Wait for timelock to expire", "Verify approvals", "Execute via multisig",
\* "Verify upgrade", "Update proposal", unlock
execute_upgrade_run(t) ==
    /\ pc[t] = "execute_run"
    /\ LET id == call[t].id
           i == Find(proposals, id)
           c == [call[t] EXCEPT !.t_now = now]
           waited == wait_for_timelock(id)
       IN  IF waited.kind # "Ok"
           THEN /\ Return(t, c, waited)
                /\ UNCHANGED <<proposals, ms_proposals, submitted>>
           ELSE IF Len(proposals[i].approvals) < proposals[i].approval_threshold
           THEN /\ Return(t, c, InsufficientApprovals(Len(proposals[i].approvals),
                                                      proposals[i].approval_threshold))
                /\ UNCHANGED <<proposals, ms_proposals, submitted>>
           ELSE /\ LockFree(ms_lock)
                /\ IF execute_transaction(id).kind # "Ok"
                   THEN /\ Return(t, c, execute_transaction(id))
                        /\ UNCHANGED <<proposals, ms_proposals, submitted>>
                   ELSE /\ ms_proposals' = [ms_proposals EXCEPT
                                ![Find(ms_proposals, id)].status = "Executed"]
                        /\ submitted' = submitted \cup {id}
                        /\ proposals' = [proposals EXCEPT ![i] =
                                [proposals[i] EXCEPT !.status = "Executed",
                                                     !.executed_at = Some(now)]]
                        /\ Return(t, c, Ok)
    /\ pm_lock' = IF pm_lock = t THEN NoTask ELSE pm_lock
    /\ UNCHANGED <<target, lock_vars, now, timelocks, ms_lock, next_uuid, approve_calls, onchain_vars, service_vars>>

----------------------------------------------------------------------------
(* ProposalManager::cancel_upgrade                                         *)

cancel_upgrade_begin(t, id) ==
    /\ target \in BackendTargets
    /\ Arrive(t, "cancel", id, "", "execute", "cancel_body")
    /\ UNCHANGED <<target, lock_vars, now, proposals, ms_proposals, timelocks, pm_lock, ms_lock,
                   next_uuid, approve_calls, submitted, onchain_vars, service_vars>>

\* lock, find the proposal, refuse an executed one, set Cancelled, unlock
cancel_upgrade_body(t) ==
    /\ pc[t] = "cancel_body"
    /\ LockFree(pm_lock)
    /\ LET i == Find(proposals, call[t].id)
           c == [call[t] EXCEPT !.pre_count = IF i = 0 THEN 0 ELSE Len(proposals[i].approvals),
                                !.pre_status = IF i = 0 THEN "" ELSE proposals[i].status,
                                !.pm_status = StatusOf(call[t].id)]
       IN  IF i = 0
           THEN Return(t, c, ProposalNotFound) /\ UNCHANGED proposals
           ELSE IF proposals[i].status = "Executed"
           THEN Return(t, c, AlreadyExecuted) /\ UNCHANGED proposals
           ELSE /\ proposals' = [proposals EXCEPT ![i].status = "Cancelled"]
                /\ Return(t, c, Ok)
    /\ UNCHANGED <<target, lock_vars, now, ms_proposals, timelocks, pm_lock, ms_lock, next_uuid,
                   approve_calls, submitted, onchain_vars, service_vars>>

\* ProposalManager::list_proposals: a clone of the list
list_proposals == proposals

\* ProposalManager::get_proposal_status: a is "approvals", b is "threshold"
get_proposal_status(id) ==
    LET i == Find(proposals, id)
    IN  IF i = 0 THEN ProposalNotFound
        ELSE Res("Ok", "", Len(proposals[i].approvals), proposals[i].approval_threshold)

BackendNext ==
    \/ \E t \in Tasks : propose_upgrade_begin(t)
    \/ \E t \in Tasks : propose_transaction(t)
    \/ \E t \in Tasks : propose_upgrade_push(t)
    \/ \E id \in ProposalIds : set_timelock(id, TIMELOCK_DURATION)
    \/ \E t \in Tasks, id \in IssuedIds, m \in Signers : approve_proposal_begin(t, id, m)
    \/ \E t \in Tasks : approve_proposal_check(t)
    \/ \E t \in Tasks : approve_proposal_push(t)
    \/ \E t \in Tasks, id \in IssuedIds : execute_upgrade_begin(t, id)
    \/ \E t \in Tasks : execute_upgrade_check(t)
    \/ \E t \in Tasks : execute_upgrade_run(t)
    \/ \E t \in Tasks, id \in IssuedIds : cancel_upgrade_begin(t, id)
    \/ \E t \in Tasks : cancel_upgrade_body(t)
    \/ \E t \in Tasks : respond(t)

----------------------------------------------------------------------------
(* The on-chain program upgrade_manager                                    *)

\* What initialize may be given
MaxThreshold == 2
MemberLists == {SubSeq(members, 1, n) : n \in (NumCallers - 1)..NumCallers}
Thresholds == 1..MaxThreshold
Durations == {0, ClockStep, TIMELOCK_DURATION}

\* The proposal PDAs: one per (program, buffer) seed
Buffers == 1..MaxProposals

\* #[error_code] UpgradeError: unit variants; and Anchor's own account errors
Err(kind) == Res(kind, "", 0, 0)

\* config.members.contains(&signer)
IsMember(signer) == Contains(config.members, signer)

\* Checks that let everything through
StatusOpenAlways(p) == TRUE
TimelockExpiredAlways(p) == TRUE

\* approve_upgrade's "Check proposal status"
StatusOpen(p) == p.status = "Proposed" \/ p.status = "Approved"

\* execute_upgrade's "Verify timelock has expired"
TimelockExpired(p) == now >= p.timelock_until

\* execute_upgrade's "Verify sufficient approvals"
SufficientApprovals(p) == Len(p.approvals) >= p.approval_threshold

\* what a transaction on account key by signer found
Found(op, key, signer) ==
    [NoTx EXCEPT !.op = op, !.key = key, !.signer = signer, !.t_now = now,
                 !.pre_status = accounts[key].status,
                 !.pre_count = Len(accounts[key].approvals),
                 !.pre_has = Contains(accounts[key].approvals, signer),
                 !.pre_until = accounts[key].timelock_until]

initialize(ms, threshold, timelock_duration) ==
    /\ target = "onchain"
    /\ ~config.initialized
    /\ config' = [initialized |-> TRUE, members |-> ms, threshold |-> threshold,
                  timelock_duration |-> timelock_duration]
    /\ tx' = [NoTx EXCEPT !.op = "initialize", !.t_now = now, !.res = Ok]
    /\ UNCHANGED <<target, lock_vars, now, backend_vars, service_vars, accounts>>

propose_upgrade(proposer, buffer) ==
    /\ target = "onchain"
    /\ config.initialized
    /\ LET t == [NoTx EXCEPT !.op = "propose", !.key = buffer, !.signer = proposer, !.t_now = now]
       IN  IF buffer \in DOMAIN accounts
           THEN /\ tx' = [t EXCEPT !.res = Err("AccountAlreadyInUse")]
                /\ UNCHANGED accounts
           ELSE IF ~IsMember(proposer)
           THEN /\ tx' = [t EXCEPT !.res = Err("NotMultisigMember")]
                /\ UNCHANGED accounts
           ELSE /\ accounts' = [b \in DOMAIN accounts \cup {buffer} |->
                        IF b = buffer
                        THEN [proposer |-> proposer,
                              proposed_at |-> now,
                              timelock_until |-> now + config.timelock_duration,
                              approvals |-> <<proposer>>,
                              approval_threshold |-> config.threshold,
                              status |-> "Proposed",
                              executed_at |-> None,
                              \* history: when the approvals first numbered the threshold
                              quorum_at |-> IF 1 >= config.threshold THEN Some(now) ELSE None]
                        ELSE accounts[b]]
                /\ tx' = [t EXCEPT !.res = Ok]
    /\ UNCHANGED <<target, lock_vars, now, backend_vars, service_vars, config>>

\* An expiry that quorum leaves as it was
QuorumExpiryKept(p) == p.timelock_until

\* "proposal.timelock_until = clock.unix_timestamp + ...timelock_duration"
QuorumExpiry(p) == now + config.timelock_duration

\* A threshold that has to be passed, not met
ThresholdMetStrictly(approvals, p) == Len(approvals) > p.approval_threshold

\* approve_upgrade's "Check if threshold met"
ThresholdMet(approvals, p) == Len(approvals) >= p.approval_threshold

approve_upgrade(approver_key, key) ==
    /\ target = "onchain"
    /\ key \in DOMAIN accounts
    /\ LET p == accounts[key]
           t == Found("approve", key, approver_key)
           approvals == Append(p.approvals, approver_key)
       IN  IF ~IsMember(approver_key)
           THEN /\ tx' = [t EXCEPT !.res = Err("NotMultisigMember")]
                /\ UNCHANGED accounts
           ELSE IF ~StatusOpen(p)
           THEN /\ tx' = [t EXCEPT !.res = Err("InvalidProposalStatus")]
                /\ UNCHANGED accounts
           ELSE IF Contains(p.approvals, approver_key)
           THEN /\ tx' = [t EXCEPT !.res = Err("AlreadyApproved")]
                /\ UNCHANGED accounts
           ELSE /\ accounts' = [accounts EXCEPT ![key] =
                        IF ThresholdMet(approvals, p)
                        THEN [p EXCEPT !.approvals = approvals,
                                       !.status = "TimelockActive",
                                       !.timelock_until = QuorumExpiry(p),
                                       !.quorum_at = IF @ = None THEN Some(now) ELSE @]
                        ELSE [p EXCEPT !.approvals = approvals, !.status = "Approved"]]
                /\ tx' = [t EXCEPT !.res = Ok]
    /\ UNCHANGED <<target, lock_vars, now, backend_vars, service_vars, config>>

execute_upgrade(executor, key) ==
    /\ target = "onchain"
    /\ key \in DOMAIN accounts
    /\ LET p == accounts[key]
           t == Found("execute", key, executor)
       IN  IF ~TimelockExpired(p)
           THEN /\ tx' = [t EXCEPT !.res = Err("TimelockActive")]
                /\ UNCHANGED accounts
           ELSE IF ~SufficientApprovals(p)
           THEN /\ tx' = [t EXCEPT !.res = Err("InsufficientApprovals")]
                /\ UNCHANGED accounts
           ELSE IF p.status # "TimelockActive"
           THEN /\ tx' = [t EXCEPT !.res = Err("InvalidProposalStatus")]
                /\ UNCHANGED accounts
           ELSE /\ accounts' = [accounts EXCEPT ![key] =
                        [p EXCEPT !.status = "Executed", !.executed_at = Some(now)]]
                /\ tx' = [t EXCEPT !.res = Ok]
    /\ UNCHANGED <<target, lock_vars, now, backend_vars, service_vars, config>>

\* A check that lets every status through
CanCancelAlways(p) == TRUE

\* cancel_upgrade's "Can only cancel before execution"
CanCancel(p) == p.status # "Executed"

cancel_upgrade(canceller, key) ==
    /\ target = "onchain"
    /\ key \in DOMAIN accounts
    /\ LET p == accounts[key]
           t == Found("cancel", key, canceller)
       IN  IF ~IsMember(canceller)
           THEN /\ tx' = [t EXCEPT !.res = Err("NotMultisigMember")]
                /\ UNCHANGED accounts
           ELSE IF ~CanCancel(p)
           THEN /\ tx' = [t EXCEPT !.res = Err("CannotCancelExecuted")]
                /\ UNCHANGED accounts
           ELSE /\ accounts' = [accounts EXCEPT ![key].status = "Cancelled"]
                /\ tx' = [t EXCEPT !.res = Ok]
    /\ UNCHANGED <<target, lock_vars, now, backend_vars, service_vars, config>>

OnchainNext ==
    \/ \E ms \in MemberLists, th \in Thresholds, d \in Durations : initialize(ms, th, d)
    \/ \E s \in Signers, b \in Buffers : propose_upgrade(s, b)
    \/ \E s \in Signers, b \in Buffers : approve_upgrade(s, b)
    \/ \E s \in Signers, b \in Buffers : execute_upgrade(s, b)
    \/ \E s \in Signers, b \in Buffers : cancel_upgrade(s, b)

----------------------------------------------------------------------------
(* MigrationManager                                                        *)

MaxMigrations == 2
MaxAccounts == 2

\* the placeholder account data migrate_single_account transforms: vec![0u8; 40]
OLD_DATA_LEN == 40
old_data == [i \in 1..OLD_DATA_LEN |-> 0]

\* identify_accounts_to_migrate: Ok(vec![])
identify_accounts_to_migrate == <<>>

\* MigrationManager::new: migrators = [UserAccountMigrator]
migrators == <<"UserAccountMigrator">>

\* The values migrate_accounts_batch may be given: any accounts, any migrators
\* (no migrator, the UserAccountMigrator, another implementation of the trait)
AccountLists == {[i \in 1..n |-> i] : n \in 0..MaxAccounts}
MigratorLists == {<<>>, <<"UserAccountMigrator">>, <<"dyn">>}

\* UserAccountMigrator::new: new_version
new_version == 2

\* to_le_bytes of a value that is not negative: n bytes, the lowest first
RECURSIVE to_le_bytes(_, _)
to_le_bytes(v, n) ==
    IF n = 0 THEN <<>> ELSE <<v % 256>> \o to_le_bytes(v \div 256, n - 1)

\* Result<bool, MigrationError>
OkBool(b) == Res("Ok", "", IF b THEN 1 ELSE 0, 0)

\* UserAccountMigrator::migrate: the old bytes, then last_active (the clock,
\* an i64) and the version marker (a u32)
migrate(data) ==
    IF Len(data) < 40 THEN Err("InvalidData")
    ELSE [kind |-> "Ok", data |-> data \o to_le_bytes(now, 8) \o to_le_bytes(new_version, 4)]

\* A verification that looks at the lengths only
verify_lengths_only(data, new_data) ==
    IF Len(new_data) < Len(data) THEN OkBool(FALSE)
    ELSE IF Len(new_data) < Len(data) + 8 + 4 THEN OkBool(FALSE)
    ELSE OkBool(TRUE)

\* UserAccountMigrator::verify
verify(data, new_data) ==
    IF Len(new_data) < Len(data) THEN OkBool(FALSE)
    ELSE IF SubSeq(new_data, 1, Len(data)) # data THEN OkBool(FALSE)
    ELSE IF Len(new_data) < Len(data) + 8 + 4 THEN OkBool(FALSE)
    ELSE OkBool(TRUE)

\* migrate_single_account: TRUE for Ok(()).  dyn_ok is what a migrator other
\* than the UserAccountMigrator answers.
migrate_single_account(ms, dyn_ok) ==
    IF ms = <<>> THEN TRUE
    ELSE IF ms[1] = "UserAccountMigrator"
    THEN /\ migrate(old_data).kind = "Ok"
         /\ verify(old_data, migrate(old_data).data) = OkBool(TRUE)
    ELSE dyn_ok

\* migrations.iter_mut().find(|m| m.migration_id == migration_id)
FindMigration(migration_id) ==
    IF \E i \in 1..Len(migrations) : migrations[i].migration_id = migration_id
    THEN CHOOSE i \in 1..Len(migrations) :
            /\ migrations[i].migration_id = migration_id
            /\ \A j \in 1..(i - 1) : migrations[j].migration_id # migration_id
    ELSE 0

\* A tally that forgets the failures
TallySuccessesOnly(m, ok) ==
    IF ok THEN [m EXCEPT !.migrated_accounts = @ + 1] ELSE m

\* migrate_accounts_batch's match on one account's result
Tally(m, ok) ==
    IF ok THEN [m EXCEPT !.migrated_accounts = @ + 1]
          ELSE [m EXCEPT !.failed_accounts = @ + 1]

\* A completion that a failed account forbids
CompleteUnlessFailed(m, t_now) ==
    IF m.failed_accounts = 0
    THEN [m EXCEPT !.status = "Completed", !.completed_at = Some(t_now)]
    ELSE m

\* "Mark migration as completed"
Complete(m, t_now) == [m EXCEPT !.status = "Completed", !.completed_at = Some(t_now)]

\* The record start_migration pushes and the task it spawns
NewMigration(migration_id, accs) ==
    [migration_id |-> migration_id,
     total_accounts |-> Len(accs),
     migrated_accounts |-> 0,
     failed_accounts |-> 0,
     status |-> "InProgress",
     started_at |-> now,
     completed_at |-> None]

NewBatch(migration_id, accs, ms) ==
    [migration_id |-> migration_id, accounts |-> accs, migrators |-> ms,
     next |-> 1, done |-> FALSE]

start_migration ==
    /\ target = "migration"
    /\ Len(migrations) < MaxMigrations
    /\ LET migration_id == Len(batch) + 1
           accounts_to_migrate == identify_accounts_to_migrate
       IN  /\ migrations' = Append(migrations, NewMigration(migration_id, accounts_to_migrate))
           /\ batch' = Append(batch, NewBatch(migration_id, accounts_to_migrate, migrators))
    /\ UNCHANGED <<target, lock_vars, now, backend_vars, onchain_vars, query,
                   rollback, rollback_events, metrics, alerts>>

\* One step of the spawned task b: the next account of its loop, or, the loop
\* over, "Mark migration as completed"
migrate_accounts_batch(b, dyn_ok) ==
    /\ target = "migration"
    /\ ~batch[b].done
    /\ LET i == FindMigration(batch[b].migration_id)
       IN  IF batch[b].next <= Len(batch[b].accounts)
           THEN /\ migrations' =
                      IF i = 0 THEN migrations
                      ELSE [migrations EXCEPT ![i] =
                              Tally(migrations[i], migrate_single_account(batch[b].migrators, dyn_ok))]
                /\ batch' = [batch EXCEPT ![b].next = @ + 1]
           ELSE /\ migrations' =
                      IF i = 0 THEN migrations
                      ELSE [migrations EXCEPT ![i] = Complete(migrations[i], now)]
                /\ batch' = [batch EXCEPT ![b].done = TRUE]
    /\ UNCHANGED <<target, lock_vars, now, backend_vars, onchain_vars, query,
                   rollback, rollback_events, metrics, alerts>>

\* The first record in place of the last
latest_first(ms) == ms[1]

\* "migrations.last().unwrap()"
latest(ms) == ms[Len(ms)]

\* MigrationManager::get_progress; status is the Debug rendering of
\* MigrationStatus; progress_percent (an f64) is left out
get_progress ==
    IF migrations = <<>>
    THEN [status |-> "no_migrations"]
    ELSE LET m == latest(migrations)
         IN  [migration_id |-> m.migration_id,
              status |-> m.status,
              migrated_accounts |-> m.migrated_accounts,
              total_accounts |-> m.total_accounts,
              failed_accounts |-> m.failed_accounts,
              started_at |-> m.started_at,
              completed_at |-> m.completed_at]

\* a caller asks for the progress; jobs: the start_migration calls returned so far
get_progress_call ==
    /\ target = "migration"
    /\ query' = [op |-> "get_progress", args |-> [jobs |-> Len(batch)], res |-> get_progress]
    /\ UNCHANGED <<target, lock_vars, now, backend_vars, onchain_vars,
                   migrations, batch, rollback, rollback_events, metrics, alerts>>

MigrationNext ==
    \/ start_migration
    \/ \E b \in 1..Len(batch), dyn_ok \in BOOLEAN : migrate_accounts_batch(b, dyn_ok)

\* migrate_accounts_batch on any arguments: the tasks in flight hold any
\* accounts and any migrators, their records as start_migration makes them
InitBatch ==
    /\ target = "migration"
    /\ InitGovernance
    /\ InitRollback
    /\ \E k \in 0..MaxMigrations :
        \E accs \in [1..k -> AccountLists], ms \in [1..k -> MigratorLists] :
            /\ migrations = [i \in 1..k |-> NewMigration(i, accs[i])]
            /\ batch = [i \in 1..k |-> NewBatch(i, accs[i], ms[i])]

BatchNext == Tick \/ MigrationNext

SpecBatch == InitBatch /\ [][BatchNext]_vars

\* tokio runs every spawned task that can run
BatchFairness ==
    \A b \in 1..MaxMigrations :
        WF_vars(b <= Len(batch) /\ \E dyn_ok \in BOOLEAN : migrate_accounts_batch(b, dyn_ok))

SpecBatchFair == SpecBatch /\ BatchFairness

----------------------------------------------------------------------------
(* RollbackHandler, and the recorders of MonitoringService and Database    *)

MaxRollbacks == 2

\* An order that resumes intake before the prior version is redeployed
StagesResumeEarly == <<"pause_system", "emergency_close_all_positions", "return_all_funds",
                       "resume_system", "deploy_old_program">>

\* rollback_program's five steps, in its order
Stages == <<"pause_system", "emergency_close_all_positions", "return_all_funds",
            "deploy_old_program", "resume_system">>

\* The five step functions: each logs and returns Ok(())
pause_system == Ok
emergency_close_all_positions == Ok
return_all_funds == Ok
deploy_old_program == Ok
resume_system == Ok

RunStage(stage) ==
    CASE stage = "pause_system" -> pause_system
      [] stage = "emergency_close_all_positions" -> emergency_close_all_positions
      [] stage = "return_all_funds" -> return_all_funds
      [] stage = "deploy_old_program" -> deploy_old_program
      [] stage = "resume_system" -> resume_system

\* rollback_program is called
rollback_program_begin ==
    /\ target = "rollback"
    /\ rollback.pc = "idle"
    /\ rollback' = [NoRollback EXCEPT !.pc = Stages[1]]
    /\ UNCHANGED <<target, lock_vars, now, backend_vars, onchain_vars, query,
                   migrations, batch, rollback_events, metrics, alerts>>

\* "self.<step>().await?": the step at hand runs; its error returns from
\* rollback_program, its Ok leads to the next step, the last one's to Ok(())
rollback_program_step ==
    /\ target = "rollback"
    /\ rollback.pc \in {Stages[k] : k \in 1..Len(Stages)}
    /\ LET k == CHOOSE j \in 1..Len(Stages) : Stages[j] = rollback.pc
           r == RunStage(rollback.pc)
           ran == Append(rollback.ran, rollback.pc)
       IN  rollback' =
             IF r.kind # "Ok" THEN [pc |-> "returned", ran |-> ran, res |-> r]
             ELSE IF k < Len(Stages) THEN [pc |-> Stages[k + 1], ran |-> ran, res |-> NoRes]
             ELSE [pc |-> "returned", ran |-> ran, res |-> Ok]
    /\ UNCHANGED <<target, lock_vars, now, backend_vars, onchain_vars, query,
                   migrations, batch, rollback_events, metrics, alerts>>

\* the caller has the result
rollback_program_return ==
    /\ target = "rollback"
    /\ rollback.pc = "returned"
    /\ rollback' = NoRollback
    /\ UNCHANGED <<target, lock_vars, now, backend_vars, onchain_vars, query,
                   migrations, batch, rollback_events, metrics, alerts>>

\* MonitoringService::record_rollback, with send_alert: no code calls it
record_rollback ==
    /\ target = "rollback"
    /\ metrics.rollbacks_initiated < MaxRollbacks
    /\ metrics' = [metrics EXCEPT !.rollbacks_initiated = @ + 1]
    /\ alerts' = Append(alerts, [level |-> "Critical", message |-> "Rollback initiated",
                                 timestamp |-> now, component |-> "rollback_handler"])
    /\ UNCHANGED <<target, lock_vars, now, backend_vars, onchain_vars, query,
                   migrations, batch, rollback, rollback_events>>

\* Database::record_rollback_event: no code calls it
record_rollback_event(proposal_id, old_program_id) ==
    /\ target = "rollback"
    /\ Len(rollback_events) < MaxRollbacks
    /\ rollback_events' = Append(rollback_events,
            [proposal_id |-> proposal_id, old_program_id |-> old_program_id])
    /\ UNCHANGED <<target, lock_vars, now, backend_vars, onchain_vars, query,
                   migrations, batch, rollback, metrics, alerts>>

RollbackNext ==
    \/ rollback_program_begin
    \/ rollback_program_step
    \/ rollback_program_return
    \/ record_rollback
    \/ record_rollback_event("proposal", "old_program")

----------------------------------------------------------------------------
(* SecurityAuditor                                                         *)

MaxConfigMembers == 21
MaxConfigThreshold == 22

\* the keys 1..n, and the same with key 1 again at place j
DistinctMembers(n) == [i \in 1..n |-> i]
ConfigMembers ==
    {DistinctMembers(n) : n \in 0..MaxConfigMembers}
    \cup UNION {{[DistinctMembers(n) EXCEPT ![j] = 1] : j \in 2..n} : n \in 2..MaxConfigMembers}
ConfigThresholds == 0..MaxConfigThreshold

\* "for member in members { if !seen.insert(member) ...": a member seen before
HasDuplicate(ms) ==
    \E j \in 1..Len(ms) : \E i \in 1..(j - 1) : ms[i] = ms[j]

\* A minimum that rounds down
min_threshold_floor(len) == len \div 2

\* "(members.len() as f64 * 0.5).ceil() as u8"
min_threshold(len) == (len + 1) \div 2

\* SecurityAuditor::verify_multisig_config
verify_multisig_config(ms, threshold) ==
    IF Len(ms) < 3
    THEN InternalError("Multisig must have at least 3 members")
    ELSE IF Len(ms) > 20
    THEN InternalError("Multisig should not exceed 20 members")
    ELSE IF threshold < 2
    THEN InternalError("Threshold must be at least 2")
    ELSE IF threshold > Len(ms) % 256
    THEN InternalError("Threshold cannot exceed number of members")
    ELSE IF HasDuplicate(ms)
    THEN InternalError("Duplicate multisig members not allowed")
    ELSE IF threshold < min_threshold(Len(ms))
    THEN InternalError("Threshold must be at least min_threshold for security")
    ELSE OkBool(TRUE)

\* a caller has a configuration verified; the auditor keeps no state, so one
\* call to a behaviour shows them all
verify_multisig_config_call(ms, threshold) ==
    /\ target = "audit"
    /\ query = NoQuery
    /\ query' = [op |-> "verify_multisig_config",
                 args |-> [members |-> ms, threshold |-> threshold],
                 res |-> verify_multisig_config(ms, threshold)]
    /\ UNCHANGED <<target, lock_vars, now, backend_vars, onchain_vars,
                   migrations, batch, rollback, rollback_events, metrics, alerts>>

InitAudit ==
    /\ target = "audit"
    /\ InitGovernance
    /\ InitRollback
    /\ migrations = <<>>
    /\ batch = <<>>

AuditNext ==
    \E ms \in ConfigMembers, threshold \in ConfigThresholds :
        verify_multisig_config_call(ms, threshold)

SpecAudit == InitAudit /\ [][AuditNext]_vars

----------------------------------------------------------------------------
(* TimelockManager's queries                                               *)

MaxTimelockIds == 2

TimelockIds == 1..MaxTimelockIds
HOUR == 3600
TimelockDurations == {0, HOUR, ClockStep, TIMELOCK_DURATION}

\* An expiry that has to be passed, not reached
is_timelock_expired_strict(timelock_end, t_now) == OkBool(t_now > timelock_end)

\* is_timelock_expired, after get_timelock_end answered timelock_end
is_timelock_expired(timelock_end, t_now) == OkBool(t_now >= timelock_end)

\* get_remaining_time, after get_timelock_end answered timelock_end
get_remaining_time(timelock_end, t_now) ==
    LET remaining == timelock_end - t_now
    IN  OkId(IF remaining > 0 THEN remaining ELSE 0)

TimelockQueries == {"is_timelock_expired", "get_remaining_time"}

\* "self.get_timelock_end(proposal_id).await?": the registry is read under its
\* lock; not-found returns at once
timelock_query_begin(op, id) ==
    /\ target = "timelock"
    /\ query.op = "none" \/ query.res # NoRes
    /\ LET timelock_end == get_timelock_end(id)
       IN  query' = [op |-> op,
                     args |-> [id |-> id, timelock_end |-> timelock_end, t_now |-> 0],
                     res |-> IF timelock_end.kind # "Ok" THEN timelock_end ELSE NoRes]
    /\ UNCHANGED <<target, lock_vars, now, backend_vars, onchain_vars,
                   migrations, batch, rollback, rollback_events, metrics, alerts>>

\* the clock is read and the answer computed
timelock_query_finish ==
    /\ target = "timelock"
    /\ query.op \in TimelockQueries
    /\ query.res = NoRes
    /\ query' = [query EXCEPT
            !.args.t_now = now,
            !.res = IF query.op = "is_timelock_expired"
                    THEN is_timelock_expired(query.args.timelock_end.a, now)
                    ELSE get_remaining_time(query.args.timelock_end.a, now)]
    /\ UNCHANGED <<target, lock_vars, now, backend_vars, onchain_vars,
                   migrations, batch, rollback, rollback_events, metrics, alerts>>

InitTimelock ==
    /\ target = "timelock"
    /\ InitGovernance
    /\ InitRollback
    /\ migrations = <<>>
    /\ batch = <<>>

TimelockNext ==
    \/ Tick
    \/ \E id \in TimelockIds, d \in TimelockDurations : set_timelock(id, d)
    \/ \E op \in TimelockQueries, id \in TimelockIds : timelock_query_begin(op, id)
    \/ timelock_query_finish

SpecTimelock == InitTimelock /\ [][TimelockNext]_vars

\* The ProposalManager's operations alone: all that reads or writes its list
InitList ==
    /\ target = "listing"
    /\ InitGovernance
    /\ InitRollback
    /\ migrations = <<>>
    /\ batch = <<>>

ListNext ==
    \/ Tick
    \/ \E t \in Tasks : propose_upgrade_begin(t)
    \/ \E t \in Tasks : propose_transaction(t)
    \/ \E t \in Tasks : propose_upgrade_push(t)
    \/ \E id \in ProposalIds : set_timelock(id, TIMELOCK_DURATION)
    \/ \E t \in Tasks, id \in IssuedIds : execute_upgrade_begin(t, id)
    \/ \E t \in Tasks : execute_upgrade_check(t)
    \/ \E t \in Tasks : execute_upgrade_run(t)
    \/ \E t \in Tasks, id \in IssuedIds : cancel_upgrade_begin(t, id)
    \/ \E t \in Tasks : cancel_upgrade_body(t)
    \/ \E t \in Tasks : respond(t)

SpecList == InitList /\ [][ListNext]_vars

Next == Tick \/ BackendNext \/ OnchainNext \/ MigrationNext \/ get_progress_call \/ RollbackNext

Spec == Init /\ [][Next]_vars

----------------------------------------------------------------------------
(* Properties                                                              *)

NonTerminal == {"Proposed", "Approved", "TimelockActive"}

\* The approvals recorded under id, wherever a record of that id is kept
ApprovalCount(id) ==
    IF Find(ms_proposals, id) # 0 THEN Len(ms_proposals[Find(ms_proposals, id)].approvals)
    ELSE IF Find(proposals, id) # 0 THEN Len(proposals[Find(proposals, id)].approvals)
    ELSE 0

\* Tasks t and u hold the results of two calls, of kinds op_t and op_u, on the
\* same id, that were in flight together
Raced(t, op_t, u, op_u) ==
    /\ t # u
    /\ pc[t] = "returned" /\ pc[u] = "returned"
    /\ call[t].op = op_t /\ call[u].op = op_u
    /\ call[t].id = call[u].id
    /\ call[t].rival = u /\ call[u].rival = t

\* C1: a proposal's status becomes Executed only in a step of an execute call at
\* whose start the proposal's approval count is >= its approval threshold and
\* the clock is >= its timelock expiry; in the backend ProposalManager and in
\* the on-chain program alike, and no proposal is created Executed.
C1_ExecutedOnlyWhenReady ==
    [][ /\ \A i \in 1..Len(proposals') :
            proposals'[i].status = "Executed" /\ (i > Len(proposals) \/ proposals[i].status # "Executed")
            => /\ i <= Len(proposals)
               /\ Len(proposals[i].approvals) >= proposals[i].approval_threshold
               /\ now >= proposals[i].timelock_until
               /\ wait_for_timelock(proposals[i].id).kind = "Ok"
               /\ \E t \in Tasks : pc[t] = "execute_run" /\ call[t].id = proposals[i].id
        /\ \A b \in DOMAIN accounts' :
            accounts'[b].status = "Executed" /\ (b \notin DOMAIN accounts \/ accounts[b].status # "Executed")
            => /\ b \in DOMAIN accounts
               /\ Len(accounts[b].approvals) >= accounts[b].approval_threshold
               /\ now >= accounts[b].timelock_until
               /\ tx'.op = "execute" /\ tx'.key = b
      ]_vars

\* C1's case: an on-chain execute has just set a proposal Executed
C1_Witness ==
    /\ tx.op = "execute" /\ tx.res = Ok
    /\ tx.key \in DOMAIN accounts
    /\ accounts[tx.key].status = "Executed"
    /\ tx.pre_count >= accounts[tx.key].approval_threshold
    /\ tx.t_now >= tx.pre_until

\* C2: once propose_upgrade has returned an id, threshold (3) distinct members
\* have approved that id and the clock has passed the proposal's 48h timelock,
\* execute_upgrade on that id succeeds and the proposal's status is Executed.
C2_HappyPathExecutes ==
    \A t \in Tasks :
        ( /\ pc[t] = "returned" /\ call[t].op = "execute"
          /\ call[t].id \in ProposalIds
          /\ call[t].pre_status \in NonTerminal
          /\ call[t].pre_callers >= APPROVAL_THRESHOLD
          /\ call[t].t_now >= proposals[Find(proposals, call[t].id)].timelock_until )
        => call[t].res = Ok /\ StatusOf(call[t].id) = "Executed"

\* C3: execute on a non-terminal proposal whose approval count is below its
\* threshold fails with InsufficientApprovals carrying the current count and
\* the threshold, whether or not the timelock has elapsed; in the backend and
\* on-chain.
C3_InsufficientApprovalsReported ==
    /\ \A t \in Tasks :
        ( /\ pc[t] = "returned" /\ call[t].op = "execute"
          /\ call[t].id \in ProposalIds
          /\ call[t].pre_status \in NonTerminal
          /\ call[t].pre_count < proposals[Find(proposals, call[t].id)].approval_threshold )
        => call[t].res = InsufficientApprovals(call[t].pre_count,
                            proposals[Find(proposals, call[t].id)].approval_threshold)
    /\ ( /\ tx.op = "execute"
         /\ tx.pre_status \in NonTerminal
         /\ tx.pre_count < accounts[tx.key].approval_threshold )
       => tx.res.kind = "InsufficientApprovals"

\* C4: execute on a proposal that threshold distinct members have approved,
\* before its timelock expires, fails with TimelockActive reporting a
\* remaining time > 0.
C4_TimelockActiveReported ==
    \A t \in Tasks :
        ( /\ pc[t] = "returned" /\ call[t].op = "execute"
          /\ call[t].id \in ProposalIds
          /\ call[t].pre_status \in NonTerminal
          /\ call[t].pre_callers >= APPROVAL_THRESHOLD
          /\ call[t].t_now < proposals[Find(proposals, call[t].id)].timelock_until )
        => call[t].res.kind = "TimelockActive" /\ call[t].res.a > 0

\* C5: an approve call by an approver already recorded on the proposal never
\* increases the approval count and fails with AlreadyApproved, in whatever
\* status the proposal is; in the backend and on-chain.
C5_RepeatedApproveAlreadyApproved ==
    /\ \A t \in Tasks :
        (pc[t] = "returned" /\ call[t].op = "approve" /\ call[t].pre_has)
        => call[t].res.kind = "AlreadyApproved"
    /\ (tx.op = "approve" /\ tx.pre_has)
       => /\ tx.res.kind = "AlreadyApproved"
          /\ Len(accounts[tx.key].approvals) = tx.pre_count

\* C6: once a proposal is Cancelled, every approve and every execute that finds
\* it so fails, and no step makes its approvals grow or its status leave
\* Cancelled; in the backend and on-chain.
C6_CancelIsTerminal ==
    /\ [] /\ \A t \in Tasks :
                (pc[t] = "returned" /\ call[t].op \in {"approve", "execute"}
                    /\ call[t].pm_status = "Cancelled")
                => call[t].res.kind \notin {"Ok", "None"}
          /\ (tx.op \in {"approve", "execute"} /\ tx.pre_status = "Cancelled")
             => tx.res.kind \notin {"Ok", "None"}
    /\ [][ /\ \A i \in 1..Len(proposals) :
                proposals[i].status = "Cancelled"
                => /\ i <= Len(proposals')
                   /\ proposals'[i].id = proposals[i].id
                   /\ proposals'[i].status = "Cancelled"
                   /\ Len(proposals'[i].approvals) <= Len(proposals[i].approvals)
           /\ \A b \in DOMAIN accounts :
                accounts[b].status = "Cancelled"
                => /\ b \in DOMAIN accounts'
                   /\ accounts'[b].status = "Cancelled"
                   /\ Len(accounts'[b].approvals) <= Len(accounts[b].approvals)
         ]_vars

\* C6's case: an execute call on a cancelled proposal has failed
C6_Witness ==
    \E t \in Tasks :
        /\ pc[t] = "returned" /\ call[t].op = "execute"
        /\ call[t].pm_status = "Cancelled"
        /\ call[t].res = AlreadyCancelled
        /\ StatusOf(call[t].id) = "Cancelled"

\* C7: no governance configuration and no proposal exists whose timelock is
\* shorter than the 48-hour minimum.
C7_TimelockFloor ==
    /\ config.initialized => config.timelock_duration >= MIN_TIMELOCK
    /\ \A b \in DOMAIN accounts :
          accounts[b].timelock_until >= accounts[b].proposed_at + MIN_TIMELOCK
    /\ \A i \in 1..Len(proposals) :
          proposals[i].timelock_until >= proposals[i].proposed_at + MIN_TIMELOCK

\* C8: approve calls in flight together from distinct approvers on one proposal
\* all succeed, and all of them are counted.
C8_ConcurrentDistinctApprovals ==
    \A t, u \in Tasks :
        (Raced(t, "approve", u, "approve") /\ call[t].caller # call[u].caller)
        => /\ call[t].res = Ok /\ call[u].res = Ok
           /\ ApprovalCount(call[t].id) >= 2

\* C9: of two approve calls in flight together from the same approver on the
\* same proposal, exactly one is recorded and the other fails with
\* AlreadyApproved.
C9_ConcurrentSameApprover ==
    \A t, u \in Tasks :
        (Raced(t, "approve", u, "approve") /\ call[t].caller = call[u].caller)
        => \/ call[t].res = Ok /\ call[u].res.kind = "AlreadyApproved"
           \/ call[u].res = Ok /\ call[t].res.kind = "AlreadyApproved"

\* C10 as stated: when cancel_upgrade races with execute_upgrade on a proposal
\* that both find, either cancel succeeds and execute fails with
\* AlreadyCancelled, nothing being submitted, or execute succeeds and cancel
\* fails with AlreadyExecuted; and no proposal that was submitted ends Cancelled.
C10_TwoOutcomes ==
    /\ \A t, u \in Tasks :
        (Raced(t, "cancel", u, "execute") /\ call[t].pre_status # "" /\ call[u].pre_status # "")
        => \/ /\ call[t].res = Ok /\ call[u].res = AlreadyCancelled
              /\ call[t].id \notin submitted
           \/ call[t].res = AlreadyExecuted /\ call[u].res = Ok
    /\ \A id \in ProposalIds : StatusOf(id) = "Cancelled" => id \notin submitted

\* C10, amended: there is a third outcome, execute failing on a precondition
\* other than the status (timelock, approvals, multisig) without submitting
\* anything and cancel succeeding after it; in every outcome cancel runs wholly before execute's status check or wholly
\* after execute's return, and no submitted proposal ends Cancelled.
C10_CancelExecuteRace ==
    /\ \A t, u \in Tasks :
        (Raced(t, "cancel", u, "execute") /\ call[t].pre_status # "" /\ call[u].pre_status # "")
        => \/ /\ call[t].res = Ok /\ call[u].res = AlreadyCancelled
              /\ call[t].id \notin submitted
           \/ call[t].res = AlreadyExecuted /\ call[u].res = Ok
           \/ /\ call[t].res = Ok
              /\ call[u].res.kind \in {"ProposalNotFound", "TimelockActive",
                                       "InsufficientApprovals", "InternalError"}
              /\ call[u].pre_status \in NonTerminal
              /\ call[t].pre_status \in NonTerminal \cup {"Cancelled"}
              /\ call[t].id \notin submitted
    /\ \A u \in Tasks :
        pc[u] = "execute_run"
        => /\ StatusOf(call[u].id) = call[u].pre_status
           /\ \A t \in Tasks \ {u} : pc[t] # "execute_run"
    /\ \A id \in ProposalIds : StatusOf(id) = "Cancelled" => id \notin submitted

\* C10's case: a cancel that raced with an execute won, and the execute found
\* the proposal cancelled
C10_Witness ==
    \E t, u \in Tasks :
        /\ Raced(t, "cancel", u, "execute")
        /\ call[u].pre_status = "Cancelled"
        /\ call[t].res = Ok
        /\ call[u].res = AlreadyCancelled

C12_CompletedTally ==
    \A i \in 1..Len(migrations) :
        migrations[i].status = "Completed"
        => migrations[i].migrated_accounts + migrations[i].failed_accounts
                = migrations[i].total_accounts

\* C12's case: a job completed after accounts of it succeeded and failed
C12_Witness ==
    \E i \in 1..Len(migrations) :
        /\ migrations[i].status = "Completed"
        /\ migrations[i].migrated_accounts > 0
        /\ migrations[i].failed_accounts > 0

\* C14: whenever rollback_program has run its five stages and returns success,
\* a RollbackEvent has been appended and a critical alert has been raised to
\* the monitoring service.
C14_RollbackRecorded ==
    (rollback.pc = "returned" /\ rollback.res = Ok /\ rollback.ran = Stages)
    => /\ Len(rollback_events) > 0
       /\ \E i \in 1..Len(alerts) : alerts[i].level = "Critical"
       /\ metrics.rollbacks_initiated > 0


Terminal == {"Executed", "Cancelled"}

\* C16: once a proposal's status is Executed or Cancelled, no later step changes
\* its ProposalManager record, the MultisigCoordinator record created for it,
\* or its on-chain proposal account.
C16_TerminalImmutable ==
    [][ /\ \A i \in 1..Len(proposals) :
              proposals[i].status \in Terminal
              => /\ proposals'[i] = proposals[i]
                 /\ \A j \in 1..Len(ms_proposals) :
                        ms_proposals[j].for_proposal = proposals[i].id
                        => ms_proposals'[j] = ms_proposals[j]
        /\ \A k \in DOMAIN accounts :
              accounts[k].status \in Terminal => accounts'[k] = accounts[k] ]_vars


\* C17: when propose_upgrade has returned an id, the TimelockRegistry holds an
\* entry for that id whose expiry is the record's timelock_until, so
\* get_timelock_end on the id succeeds with that expiry.
C17_TimelockRegistered ==
    \A t \in Tasks :
        (pc[t] = "returned" /\ call[t].op = "propose" /\ call[t].res.kind = "Ok")
        => /\ call[t].res.a \in DOMAIN timelocks
           /\ get_timelock_end(call[t].res.a)
                = OkId(proposals[Find(proposals, call[t].res.a)].timelock_until)


\* C18: an approve_proposal on an id returned by propose_upgrade, by an approver
\* not yet among the proposal's approvals, succeeds, and the approvals count
\* that get_proposal_status reports for the id is then one more than before
\* (one approval after the first approve).
C18_ApproveCountsInStatus ==
    [][ \A t \in Tasks, id \in ProposalIds :
          ( /\ pc[t] # "returned" /\ pc'[t] = "returned"
            /\ call'[t].op = "approve"
            /\ call'[t].id = id
            /\ StatusOf(id) \in NonTerminal
            /\ ~Contains(proposals[Find(proposals, id)].approvals, approver) )
          => /\ call'[t].res = Ok
             /\ get_proposal_status(id)'.a = get_proposal_status(id).a + 1 ]_vars


\* what the last transaction left of the account is what it found
TxLeftUnchanged ==
    /\ accounts[tx.key].status = tx.pre_status
    /\ Len(accounts[tx.key].approvals) = tx.pre_count
    /\ accounts[tx.key].timelock_until = tx.pre_until

\* a returned backend cancel that found the proposal: Ok and Cancelled unless
\* it found it Executed, then AlreadyExecuted and the status kept
BackendCancelOutcome ==
    \A t \in Tasks :
        (pc[t] = "returned" /\ call[t].op = "cancel" /\ call[t].pre_status # "")
        => IF call[t].pre_status # "Executed"
           THEN call[t].res = Ok /\ StatusOf(call[t].id) = "Cancelled"
           ELSE call[t].res = AlreadyExecuted /\ StatusOf(call[t].id) = "Executed"

\* C19 as stated: a cancel on an existing proposal succeeds and leaves it
\* Cancelled exactly when the status before is not Executed; on Executed it
\* fails with AlreadyExecuted and the record is unchanged.
C19_CancelExactlyWhenNotExecuted ==
    /\ BackendCancelOutcome
    /\ tx.op = "cancel"
       => IF tx.pre_status # "Executed"
          THEN tx.res = Ok /\ accounts[tx.key].status = "Cancelled"
          ELSE tx.res = Err("AlreadyExecuted") /\ TxLeftUnchanged

\* C19, amended: in the backend as stated; on-chain a cancel signed by a
\* multisig member succeeds and leaves the account Cancelled exactly when the
\* status before is not Executed, on Executed it fails with
\* CannotCancelExecuted, and a cancel signed by anyone else fails with
\* NotMultisigMember; a failed cancel leaves the account unchanged.
C19_MemberCancelUnlessExecuted ==
    /\ BackendCancelOutcome
    /\ tx.op = "cancel"
       => IF ~IsMember(tx.signer)
          THEN tx.res = Err("NotMultisigMember") /\ TxLeftUnchanged
          ELSE IF tx.pre_status # "Executed"
          THEN tx.res = Ok /\ accounts[tx.key].status = "Cancelled"
          ELSE tx.res = Err("CannotCancelExecuted") /\ TxLeftUnchanged

\* C19's case: a member's cancel has found an executed proposal and failed
C19_Witness ==
    /\ tx.op = "cancel" /\ IsMember(tx.signer)
    /\ tx.pre_status = "Executed"
    /\ tx.res = Err("CannotCancelExecuted")
    /\ accounts[tx.key].status = "Executed"


\* the propose_upgrade calls that return an id in this step
ProposesReturning ==
    {t \in Tasks : /\ pc[t] # "returned" /\ pc'[t] = "returned"
                   /\ call'[t].op = "propose" /\ call'[t].res.kind = "Ok"}

\* C20: every step lengthens the list of list_proposals by the number of
\* propose_upgrade calls that return an id in it and by nothing else, the
\* record added carries the returned id, status Proposed and no executed_at,
\* no record is ever removed, and the ids of the list are pairwise distinct.
C20_OneRecordPerPropose ==
    /\ [] \A i, j \in 1..Len(list_proposals) :
              i # j => list_proposals[i].id # list_proposals[j].id
    /\ [][ /\ Len(list_proposals') = Len(list_proposals) + Cardinality(ProposesReturning)
           /\ \A i \in 1..Len(list_proposals) :
                  i <= Len(list_proposals') /\ list_proposals'[i].id = list_proposals[i].id
           /\ \A t \in ProposesReturning :
                  LET r == list_proposals'[Len(list_proposals')]
                  IN  /\ r.id = call'[t].res.a
                      /\ r.status = "Proposed"
                      /\ r.executed_at = None ]_vars

\* C20's case: a second propose_upgrade has returned the id of the list's
\* second record
C20_Witness ==
    /\ Len(list_proposals) = 2
    /\ \E t \in Tasks :
          /\ pc[t] = "returned" /\ call[t].op = "propose"
          /\ call[t].res = OkId(list_proposals[2].id)
    /\ list_proposals[1].id # list_proposals[2].id


\* the elements of a sequence
Elements(seq) == {seq[i] : i \in 1..Len(seq)}

\* C22: verify_multisig_config answers Ok(true) exactly for the configurations
\* with 3 <= size <= 20, 2 <= threshold <= size, threshold >= ceil(size / 2)
\* and no duplicate members, and an error for every other one.
C22_ConfigAcceptedExactly ==
    query.op = "verify_multisig_config"
    => LET size == Len(query.args.members)
           threshold == query.args.threshold
           valid == /\ 3 <= size /\ size <= 20
                    /\ 2 <= threshold /\ threshold <= size
                    /\ 2 * threshold >= size
                    /\ Cardinality(Elements(query.args.members)) = size
       IN  /\ valid <=> query.res = OkBool(TRUE)
           /\ ~valid <=> query.res.kind = "InternalError"

\* C22's case: the least threshold of the largest configuration is accepted
C22_Witness ==
    /\ query.op = "verify_multisig_config"
    /\ Len(query.args.members) = 20
    /\ query.args.threshold = 10
    /\ query.res = OkBool(TRUE)


\* a returned query of the TimelockManager, and the entry it read still standing
TimelockAnswered(op) ==
    /\ query.op = op
    /\ query.res # NoRes
    /\ query.args.timelock_end.kind = "Ok"
    /\ query.args.id \in DOMAIN timelocks
    /\ timelocks[query.args.id] = query.args.timelock_end.a

\* C23: for an armed id, get_remaining_time returns max(0, expiry - now) and
\* is_timelock_expired returns true exactly when now >= expiry, that is when
\* nothing remains; before the expiry the timelock is not expired and the
\* remaining time is positive; for an id not armed both fail with not-found.
C23_RemainingAndExpired ==
    LET expiry == timelocks[query.args.id]
        t_now == query.args.t_now
        left == IF expiry - t_now > 0 THEN expiry - t_now ELSE 0
    IN  /\ TimelockAnswered("get_remaining_time")
           => /\ query.res = OkId(left)
              /\ t_now < expiry => query.res.a > 0
        /\ TimelockAnswered("is_timelock_expired")
           => /\ query.res = OkBool(t_now >= expiry)
              /\ query.res = OkBool(left = 0)
              /\ t_now < expiry => query.res = OkBool(FALSE)
        /\ (query.op \in TimelockQueries /\ query.args.timelock_end.kind # "Ok")
           => query.res = ProposalNotFound

\* C23's case: a timelock asked about at the very second of its expiry
C23_Witness ==
    /\ TimelockAnswered("is_timelock_expired")
    /\ query.args.t_now = timelocks[query.args.id]
    /\ query.args.t_now > 0
    /\ query.res = OkBool(TRUE)


\* C24: under fair scheduling of the spawned tasks every migration job reaches
\* Completed, whatever number of its accounts failed, and a task that has
\* finished never leaves its job InProgress.
C24_EveryJobCompletes ==
    /\ \A i \in 1..MaxMigrations :
          (i <= Len(migrations))
          ~> (i <= Len(migrations) /\ migrations[i].status = "Completed")
    /\ [] \A b \in 1..Len(batch) :
             batch[b].done
             => migrations[FindMigration(batch[b].migration_id)].status = "Completed"

\* C24's case: a job whose every account failed is Completed
C24_Witness ==
    \E i \in 1..Len(migrations) :
        /\ migrations[i].status = "Completed"
        /\ migrations[i].total_accounts > 0
        /\ migrations[i].failed_accounts = migrations[i].total_accounts


\* C25: get_progress reports the job of the latest start_migration that had
\* returned when it was called, whatever the state of the earlier jobs, and
\* no_migrations when none had.
C25_ProgressOfLatestJob ==
    query.op = "get_progress"
    => IF query.args.jobs = 0
       THEN query.res = [status |-> "no_migrations"]
       ELSE query.res.migration_id = batch[query.args.jobs].migration_id

\* C25's case: the second job is reported while the first is still InProgress
C25_Witness ==
    /\ query.op = "get_progress"
    /\ query.args.jobs = 2
    /\ Len(migrations) = 2
    /\ migrations[1].status = "InProgress"
    /\ query.res.migration_id = migrations[2].migration_id
    /\ migrations[1].migration_id # migrations[2].migration_id

\* C26: a get_progress call made once start_migration has returned for a batch
\* with no eligible records reports that job as Completed.
C26_CompletedOnReturn ==
    (query.op = "get_progress" /\ query.args.jobs > 0 /\ query.res.total_accounts = 0)
    => query.res.status = "Completed"


\* task u stands before a lock that task t holds
WaitsFor(u, t) ==
    \/ pm_lock = t /\ pc[u] \in {"execute_check", "cancel_body"}
    \/ ms_lock = t /\ pc[u] = "approve_check"

\* C27: a call on one proposal never keeps a call on another proposal from
\* going on (no call waits for a lock that a call on a different proposal
\* holds), and a record changes only in a step of a call on its own id.
C27_IndependentProposals ==
    /\ [] \A t, u \in Tasks :
             ( /\ t # u
               /\ call[t].id \in ProposalIds /\ call[u].id \in ProposalIds
               /\ call[t].id # call[u].id )
             => ~WaitsFor(u, t)
    /\ [][ \A i \in 1..Len(proposals) :
             proposals'[i] # proposals[i]
             => \E t \in Tasks : call[t].id = proposals[i].id /\ pc'[t] # pc[t] ]_vars


\* the ProposalManager's records keep their timelock_until in every step
BackendExpiryKept ==
    \A i \in 1..Len(proposals) : proposals'[i].timelock_until = proposals[i].timelock_until

\* C28 as stated: no step, and no approve at all, changes the timelock expiry
\* a proposal was created with.
C28_ExpiryFixedAtCreation ==
    [][ /\ BackendExpiryKept
        /\ \A key \in DOMAIN accounts :
              accounts'[key].timelock_until = accounts[key].timelock_until ]_vars

\* C28, amended: the expiry is set at creation and kept by every step but one:
\* the on-chain approve that brings the approval count to the threshold and the
\* proposal to TimelockActive sets it to that instant plus the timelock
\* duration; the backend's records keep theirs always.
C28_ExpiryRearmedAtQuorumOnly ==
    [][ /\ BackendExpiryKept
        /\ \A key \in DOMAIN accounts :
              IF /\ Len(accounts'[key].approvals) > Len(accounts[key].approvals)
                 /\ Len(accounts'[key].approvals) >= accounts[key].approval_threshold
              THEN /\ accounts'[key].timelock_until = now + config.timelock_duration
                   /\ accounts'[key].status = "TimelockActive"
              ELSE accounts'[key].timelock_until = accounts[key].timelock_until ]_vars

\* C28's case: the approve that met the threshold has moved the expiry
C28_Witness ==
    /\ tx.op = "approve" /\ tx.res = Ok
    /\ Len(accounts[tx.key].approvals) = accounts[tx.key].approval_threshold
    /\ accounts[tx.key].status = "TimelockActive"
    /\ accounts[tx.key].timelock_until = tx.t_now + config.timelock_duration
    /\ accounts[tx.key].timelock_until > tx.pre_until


\* C29: every executed on-chain proposal was executed at least the timelock
\* duration after the instant its approval count first reached the threshold.
C29_DelayFromQuorum ==
    \A key \in DOMAIN accounts :
        accounts[key].status = "Executed"
        => /\ accounts[key].quorum_at # None
           /\ accounts[key].executed_at # None
           /\ accounts[key].executed_at[1]
                >= accounts[key].quorum_at[1] + config.timelock_duration

\* C29's case: a proposal whose quorum came a day after its creation has been
\* executed, a full timelock after the quorum
C29_Witness ==
    \E key \in DOMAIN accounts :
        /\ accounts[key].status = "Executed"
        /\ config.timelock_duration > 0
        /\ accounts[key].quorum_at # None
        /\ accounts[key].quorum_at[1] > accounts[key].proposed_at
        /\ accounts[key].executed_at = Some(accounts[key].quorum_at[1] + config.timelock_duration)


\* C30: an approve by a member not yet recorded on a proposal that is neither
\* Executed nor Cancelled succeeds and appends the approval, whatever the
\* status otherwise, TimelockActive included; on-chain and in the backend.
C30_ApproveUntilTerminal ==
    /\ ( /\ tx.op = "approve"
         /\ IsMember(tx.signer)
         /\ ~tx.pre_has
         /\ tx.pre_status \notin Terminal )
       => /\ tx.res = Ok
          /\ Len(accounts[tx.key].approvals) = tx.pre_count + 1
          /\ Contains(accounts[tx.key].approvals, tx.signer)
    /\ \A t \in Tasks :
          ( /\ pc[t] = "returned" /\ call[t].op = "approve"
            /\ call[t].pre_status \notin Terminal \cup {""}
            /\ call[t].pm_status \notin Terminal
            /\ ~call[t].pre_has )
          => call[t].res = Ok


----------------------------------------------------------------------------
(* Approver lists                                                          *)

IsPrefix(s, t) == Len(s) <= Len(t) /\ SubSeq(t, 1, Len(s)) = s

NoDuplicates(s) == \A i, j \in 1..Len(s) : i # j => s[i] # s[j]

\* C31: in every step each proposal's approver list (the coordinator's record
\* and the on-chain account) is an extension of what it was before the step,
\* and after the step it names no identity twice; so the approval count
\* never goes down.
C31_ApprovalsAppendOnly ==
    [][ /\ \A i \in 1..Len(ms_proposals) :
              /\ i <= Len(ms_proposals')
              /\ ms_proposals'[i].id = ms_proposals[i].id
              /\ IsPrefix(ms_proposals[i].approvals, ms_proposals'[i].approvals)
        /\ \A i \in 1..Len(ms_proposals') : NoDuplicates(ms_proposals'[i].approvals)
        /\ \A k \in DOMAIN accounts :
              /\ k \in DOMAIN accounts'
              /\ IsPrefix(accounts[k].approvals, accounts'[k].approvals)
        /\ \A k \in DOMAIN accounts' : NoDuplicates(accounts'[k].approvals)
      ]_vars

\* a second member's approval has been appended after the proposer's
C31_Witness ==
    /\ tx.op = "approve"
    /\ tx.res = Ok
    /\ tx.pre_count = 1
    /\ accounts[tx.key].approvals = <<accounts[tx.key].proposer, tx.signer>>


\* C32: every multisig configuration in effect, and every proposal's
\* threshold, satisfies the membership rules: between 3 and 20 members, no
\* member twice, a threshold of at least 2, at least half the members
\* (rounded up) and at most all of them.
C32_ConfigInEffectValid ==
    LET Rules(ms, threshold) ==
            /\ Len(ms) >= 3 /\ Len(ms) <= 20
            /\ threshold >= 2 /\ threshold <= Len(ms)
            /\ 2 * threshold >= Len(ms)
            /\ NoDuplicates(ms)
    IN  /\ config.initialized => Rules(config.members, config.threshold)
        /\ \A key \in DOMAIN accounts :
              Rules(config.members, accounts[key].approval_threshold)
        /\ \A i \in 1..Len(ms_proposals) : Rules(members, ms_proposals[i].threshold)


\* C33: rollback_program runs its stages in the order pause intake, close
\* positions, return funds, redeploy the prior version, resume intake: the
\* stages run so far are always an initial part of that order, the stage at
\* hand is the one after them, every stage before a stage that ran returned
\* Ok, and Ok(()) is returned only when all five have run.
C33_StagesInOrder ==
    LET order == <<"pause_system", "emergency_close_all_positions", "return_all_funds",
                   "deploy_old_program", "resume_system">>
    IN  /\ IsPrefix(rollback.ran, order)
        /\ rollback.pc \in {order[k] : k \in 1..Len(order)}
              => rollback.pc = order[Len(rollback.ran) + 1]
        /\ \A k \in 1..Len(rollback.ran) : \A j \in 1..(k - 1) :
              RunStage(rollback.ran[j]) = Ok
        /\ Contains(rollback.ran, "resume_system")
              => /\ Contains(rollback.ran, "deploy_old_program")
                 /\ deploy_old_program = Ok
        /\ (rollback.pc = "returned" /\ rollback.res = Ok) => rollback.ran = order

\* a rollback has run through and resumed intake
C33_Witness ==
    /\ rollback.pc = "returned"
    /\ rollback.res = Ok
    /\ Len(rollback.ran) = 5
    /\ rollback.ran[5] = "resume_system"


\* C34: every step of a migration batch that takes up a record adds one to
\* exactly one of migrated_accounts and failed_accounts of its job and leaves
\* the task running, a failed record included; so after every step the two
\* counters of a job sum to the number of records its task has taken up,
\* which is at most total_accounts.
C34_EachRecordTalliedOnce ==
    [][ \A b \in 1..Len(batch) :
          LET i == FindMigration(batch[b].migration_id)
          IN  /\ i # 0
              /\ migrations'[i].migrated_accounts + migrations'[i].failed_accounts
                    = batch'[b].next - 1
              /\ batch'[b].next - 1 <= migrations'[i].total_accounts
              /\ batch'[b].next # batch[b].next
                    => /\ batch'[b].next = batch[b].next + 1
                       /\ ~batch'[b].done
                       /\ \/ /\ migrations'[i].migrated_accounts = migrations[i].migrated_accounts + 1
                             /\ migrations'[i].failed_accounts = migrations[i].failed_accounts
                          \/ /\ migrations'[i].failed_accounts = migrations[i].failed_accounts + 1
                             /\ migrations'[i].migrated_accounts = migrations[i].migrated_accounts
              /\ batch'[b].next = batch[b].next
                    => /\ migrations'[i].migrated_accounts = migrations[i].migrated_accounts
                       /\ migrations'[i].failed_accounts = migrations[i].failed_accounts
      ]_vars

\* a task whose first record failed is still running, its second record ahead
C34_Witness ==
    \E b \in 1..Len(batch) :
        /\ ~batch[b].done
        /\ Len(batch[b].accounts) = 2
        /\ batch[b].next = 2
        /\ migrations[b].failed_accounts = 1
        /\ migrations[b].migrated_accounts = 0


----------------------------------------------------------------------------
(* UserAccountMigrator on any account data                                 *)

MaxOldLen == 41
MaxAppended == 13

Fill(n, f) == [i \in 1..n |-> f]

\* The account data migrate and verify may be given: up to MaxOldLen bytes,
\* all alike or the last one apart
OldDatas ==
    {Fill(n, f) : n \in 0..MaxOldLen, f \in {0, 255}}
        \cup {[Fill(n, 0) EXCEPT ![n] = 1] : n \in 1..MaxOldLen}

\* The new data verify may be given with data: data with up to MaxAppended
\* bytes appended, data cut short by a byte, data with its first or its last
\* byte changed and twelve bytes appended, and what migrate makes of data
NewDatas(data) ==
    {data \o Fill(k, g) : k \in 0..MaxAppended, g \in {0, 255}}
        \cup {SubSeq(data, 1, Len(data) - 1) : j \in {1} \cap 1..Len(data)}
        \cup {[data EXCEPT ![j] = (@ + 1) % 256] \o Fill(8 + 4, 0) :
                j \in {1, Len(data)} \cap 1..Len(data)}
        \cup {migrate(data).data : j \in {1} \cap (IF migrate(data).kind = "Ok" THEN {1} ELSE {})}

migrate_call(data) ==
    /\ target = "migrator"
    /\ query = NoQuery
    /\ query' = [op |-> "migrate", args |-> [old_data |-> data], res |-> migrate(data)]
    /\ UNCHANGED <<target, lock_vars, now, backend_vars, onchain_vars,
                   migrations, batch, rollback, rollback_events, metrics, alerts>>

verify_call(data, new_data) ==
    /\ target = "migrator"
    /\ query = NoQuery
    /\ query' = [op |-> "verify", args |-> [old_data |-> data, new_data |-> new_data],
                 res |-> verify(data, new_data)]
    /\ UNCHANGED <<target, lock_vars, now, backend_vars, onchain_vars,
                   migrations, batch, rollback, rollback_events, metrics, alerts>>

InitMigrator ==
    /\ target = "migrator"
    /\ InitGovernance
    /\ InitRollback
    /\ migrations = <<>>
    /\ batch = <<>>

MigratorNext ==
    \/ Tick
    \/ \E data \in OldDatas : migrate_call(data)
    \/ \E data \in OldDatas : \E new_data \in NewDatas(data) : verify_call(data, new_data)

SpecMigrator == InitMigrator /\ [][MigratorNext]_vars

\* C35: migrate answers InvalidData to fewer than 40 bytes and otherwise the
\* old bytes with 12 bytes appended; verify answers true exactly when the new
\* data begin with the old bytes and are at least 12 bytes longer; and verify
\* accepts what migrate returns.
C35_MigrateThenVerify ==
    /\ query.op = "migrate"
          => LET old == query.args.old_data
             IN  IF Len(old) < 40
                 THEN query.res = Err("InvalidData")
                 ELSE /\ query.res.kind = "Ok"
                      /\ Len(query.res.data) = Len(old) + 12
                      /\ IsPrefix(old, query.res.data)
                      /\ verify(old, query.res.data) = OkBool(TRUE)
    /\ query.op = "verify"
          => LET old == query.args.old_data
                 new == query.args.new_data
             IN  query.res = OkBool(IsPrefix(old, new) /\ Len(new) >= Len(old) + 12)

\* migrate was given 40 bytes and verify accepts what it returned
C35_Witness ==
    /\ query.op = "migrate"
    /\ Len(query.args.old_data) = 40
    /\ query.res.kind = "Ok"
    /\ verify(query.args.old_data, query.res.data) = OkBool(TRUE)


----------------------------------------------------------------------------
(* The backend's locks, call by call: tokio::sync::Mutex hands its guard   *)
(* to the callers of lock() in the order they asked                        *)

Lock(m) == <<"lock", m>>
Unlock(m) == <<"unlock", m>>

\* an operation that locks one Mutex and drops the guard as it returns
Once(m) == <<Lock(m), Unlock(m)>>

\* ProposalManager::propose_upgrade: multisig.propose_transaction (its guard
\* dropped on return), then the proposals guard until the end
propose_upgrade_locks ==
    {<<Lock("ms_proposals"), Unlock("ms_proposals"), Lock("proposals"), Unlock("proposals")>>}

\* ProposalManager::execute_upgrade, the proposals guard held throughout:
\* returning at the lookup or the status check; after get_timelock_end, at
\* the timelock or the approvals; after multisig.execute_transaction
execute_upgrade_locks ==
    {Once("proposals"),
     <<Lock("proposals"), Lock("timelocks"), Unlock("timelocks"), Unlock("proposals")>>,
     <<Lock("proposals"), Lock("timelocks"), Unlock("timelocks"),
       Lock("ms_proposals"), Unlock("ms_proposals"), Unlock("proposals")>>}

\* MonitoringService::record_rollback: the metrics guard held over send_alert
record_rollback_locks ==
    {<<Lock("metrics"), Lock("alerts"), Unlock("alerts"), Unlock("metrics")>>}

\* MonitoringService::update_health: the health_checks guard held over
\* send_alert, which an Unhealthy status calls
update_health_locks ==
    {Once("health_checks"),
     <<Lock("health_checks"), Lock("alerts"), Unlock("alerts"), Unlock("health_checks")>>}

\* A health monitor that takes the alerts before the metrics
monitor_health_alerts_first ==
    {<<Lock("alerts"), Lock("metrics"), Unlock("metrics"), Unlock("alerts")>>}

\* MonitoringService::monitor_health, one round of its loop: the metrics
\* guard, and under it the alerts guard when the cancellation rate is high
monitor_health_locks ==
    {Once("metrics"),
     <<Lock("metrics"), Lock("alerts"), Unlock("alerts"), Unlock("metrics")>>}

\* MonitoringService::get_dashboard_data: get_metrics, get_alerts, check_health
get_dashboard_data_locks ==
    {Once("metrics") \o Once("alerts") \o Once("health_checks")}

\* MigrationManager::migrate_accounts_batch: a guard per account, and one to
\* mark the job completed
migrate_accounts_batch_locks ==
    {Once("migrations"), Once("migrations") \o Once("migrations")}

\* The operations and the lock calls each may make
Operations ==
    {[op |-> "propose_upgrade", script |-> s] : s \in propose_upgrade_locks}
    \cup {[op |-> "execute_upgrade", script |-> s] : s \in execute_upgrade_locks}
    \cup {[op |-> "cancel_upgrade", script |-> Once("proposals")]}
    \cup {[op |-> "approve_proposal", script |-> Once("ms_proposals")]}
    \cup {[op |-> "set_timelock", script |-> Once("timelocks")]}
    \cup {[op |-> "record_rollback", script |-> s] : s \in record_rollback_locks}
    \cup {[op |-> "send_alert", script |-> Once("alerts")]}
    \cup {[op |-> "get_metrics", script |-> Once("metrics")]}
    \cup {[op |-> "update_health", script |-> s] : s \in update_health_locks}
    \cup {[op |-> "monitor_health", script |-> s] : s \in monitor_health_locks}
    \cup {[op |-> "get_dashboard_data", script |-> s] : s \in get_dashboard_data_locks}
    \cup {[op |-> "start_migration", script |-> Once("migrations")]}
    \cup {[op |-> "migrate_accounts_batch", script |-> s] : s \in migrate_accounts_batch_locks}
    \cup {[op |-> "get_progress", script |-> Once("migrations")]}

\* a task past the lock call it stands at
Advance(r) ==
    IF r.at = Len(r.script) THEN NoOperation
    ELSE [r EXCEPT !.at = @ + 1, !.asked = FALSE]

\* a task enters an operation
operation_begin(t, o) ==
    /\ target = "locks"
    /\ running[t] = NoOperation
    /\ running' = [running EXCEPT ![t] = [op |-> o.op, script |-> o.script,
                                          at |-> 1, asked |-> FALSE]]
    /\ UNCHANGED <<target, now, backend_vars, onchain_vars, service_vars, mutex>>

\* "lock().await": the guard if the Mutex is free, else a place in its queue
mutex_lock(t) ==
    /\ target = "locks"
    /\ running[t] # NoOperation
    /\ ~running[t].asked
    /\ running[t].script[running[t].at][1] = "lock"
    /\ LET m == running[t].script[running[t].at][2]
       IN  IF mutex[m].holder = NoTask
           THEN /\ mutex' = [mutex EXCEPT ![m].holder = t]
                /\ running' = [running EXCEPT ![t] = Advance(@)]
           ELSE /\ mutex' = [mutex EXCEPT ![m].queue = Append(@, t)]
                /\ running' = [running EXCEPT ![t].asked = TRUE]
    /\ UNCHANGED <<target, now, backend_vars, onchain_vars, service_vars>>

\* the guard is dropped: the Mutex goes to the first task queued for it
mutex_unlock(t) ==
    /\ target = "locks"
    /\ running[t] # NoOperation
    /\ ~running[t].asked
    /\ running[t].script[running[t].at][1] = "unlock"
    /\ LET m == running[t].script[running[t].at][2]
       IN  IF mutex[m].queue = <<>>
           THEN /\ mutex' = [mutex EXCEPT ![m].holder = NoTask]
                /\ running' = [running EXCEPT ![t] = Advance(@)]
           ELSE LET u == Head(mutex[m].queue)
                IN  /\ mutex' = [mutex EXCEPT ![m] = [holder |-> u, queue |-> Tail(@.queue)]]
                    /\ running' = [v \in LockTasks |->
                                      IF v = t \/ v = u THEN Advance(running[v])
                                      ELSE running[v]]
    /\ UNCHANGED <<target, now, backend_vars, onchain_vars, service_vars>>

InitLocks ==
    /\ target = "locks"
    /\ InitGovernance
    /\ InitRollback
    /\ migrations = <<>>
    /\ batch = <<>>

LocksNext ==
    \/ \E t \in LockTasks, o \in Operations : operation_begin(t, o)
    \/ \E t \in LockTasks : mutex_lock(t)
    \/ \E t \in LockTasks : mutex_unlock(t)

SpecLocks == InitLocks /\ [][LocksNext]_vars

\* tokio runs every task that is in an operation and not queued for a Mutex
LocksFairness ==
    \A t \in LockTasks : WF_vars(mutex_lock(t) \/ mutex_unlock(t))

SpecLocksFair == SpecLocks /\ LocksFairness

\* does the task a task waits for, or the one that one waits for, and so on
\* for k tasks, stand at a call it can make?
RECURSIVE CanProceed(_, _)
CanProceed(t, k) ==
    IF ~running[t].asked THEN TRUE
    ELSE IF k = 0 THEN FALSE
    ELSE CanProceed(mutex[running[t].script[running[t].at][2]].holder, k - 1)

\* C37: the backend's nested lock calls form no cycle: every task queued
\* for a Mutex waits, through the tasks holding what it and they wait for,
\* for a task that can go on, and under tokio's scheduling every task queued
\* for a Mutex comes to hold it.
C37_EveryWaiterAcquires ==
    /\ [](\A t \in LockTasks : CanProceed(t, NumLockTasks))
    /\ \A t \in LockTasks : \A m \in Mutexes :
          (running[t].asked /\ running[t].script[running[t].at] = Lock(m))
              ~> (mutex[m].holder = t)

\* execute_upgrade, holding the proposals guard, is queued for the multisig
\* coordinator's Mutex
C37_Witness ==
    \E t \in LockTasks, u \in LockTasks :
        /\ running[t].op = "execute_upgrade"
        /\ mutex["proposals"].holder = t
        /\ running[t].asked
        /\ running[t].script[running[t].at] = Lock("ms_proposals")
        /\ mutex["ms_proposals"].holder = u
        /\ running[u].op = "propose_upgrade"


\* C38: an on-chain proposal that is not Cancelled has status TimelockActive
\* or Executed exactly when its approvals, the proposer's among them, number
\* at least its threshold; while it is Proposed or Approved they number fewer.
C38_StatusMatchesQuorum ==
    \A key \in DOMAIN accounts :
        accounts[key].status # "Cancelled"
        => ( accounts[key].status \in {"TimelockActive", "Executed"}
             <=> Len(accounts[key].approvals) >= accounts[key].approval_threshold )


\* C39: every identity in a proposal's approvals is a member of the multisig,
\* so the approvals never outnumber the members; and a propose, approve or
\* cancel by somebody who is no member (on-chain: one the instruction was run
\* for; in the backend: an approve that found its proposal) fails with
\* NotMultisigMember and leaves the proposal as it was.
C39_MembersOnly ==
    /\ \A key \in DOMAIN accounts :
          /\ \A i \in 1..Len(accounts[key].approvals) :
                Contains(config.members, accounts[key].approvals[i])
          /\ Len(accounts[key].approvals) <= Len(config.members)
    /\ \A i \in 1..Len(ms_proposals) :
          /\ \A j \in 1..Len(ms_proposals[i].approvals) :
                Contains(members, ms_proposals[i].approvals[j])
          /\ Len(ms_proposals[i].approvals) <= Len(members)
    /\ ( /\ tx.op \in {"propose", "approve", "cancel"}
         /\ ~IsMember(tx.signer)
         /\ tx.res # Err("AccountAlreadyInUse") )
       => /\ tx.res = Err("NotMultisigMember")
          /\ IF tx.op = "propose" THEN tx.key \notin DOMAIN accounts ELSE TxLeftUnchanged
    /\ \A t \in Tasks :
          ( /\ pc[t] = "returned" /\ call[t].op = "approve"
            /\ ~Contains(members, call[t].caller)
            /\ call[t].pre_status # "" )
          => /\ call[t].res.kind = "NotMultisigMember"
             /\ Len(ms_proposals[Find(ms_proposals, call[t].id)].approvals) = call[t].pre_count

====
